---------------------------- MODULE Spec2Model ----------------------------
(***************************************************************************)
(* Model of the refactoring pipeline's resumable phase-state controller    *)
(* (utils/state_manager.py), of the orchestrator that drives it (main.py)  *)
(* and of the call admission limiter (models/rate_limiter.py).             *)
(*                                                                         *)
(* The specifications share the module's variables:                        *)
(*   Spec     the pipeline process of main.py: it constructs the           *)
(*            StateManager, filters and processes the discovered files,    *)
(*            is interrupted, killed (also inside _save_state) and         *)
(*            started again, while the work items change on disk;          *)
(*   SpecApi  a StateManager under a client that makes any sequence of     *)
(*            calls of its public operations;                              *)
(*   SpecLim  a RateLimiter under calling threads and passing time.        *)
(*                                                                         *)
(* Left out: the wall-clock timestamps written into the document           *)
(* (created_at, last_updated, timestamp, last_attempt, start_time, ...)    *)
(* and the durations derived from them, which steer no branch of the       *)
(* controller, and smell_breakdown.  The only refactoring model is         *)
(* 'gemini'.  The field history of an item state is a history variable:    *)
(* the operations that changed the item, in order; it travels with the     *)
(* document so that it survives a restart like the rest of the item.       *)
(***************************************************************************)
EXTENDS Naturals, Integers, Sequences, FiniteSets, TLC

VARIABLES
    state,          \* StateManager.state: the in-memory document
    max_retries,    \* StateManager.max_retries
    current_run_id, \* StateManager._current_run_id
    proc,           \* the process: its position in main.py and its locals
    disk,           \* state_file, state_file.backup, state_file.tmp
    content,        \* the work items on disk: their content, or NoFile
    last,           \* the last call of a StateManager operation and its result
    published,      \* history: the document last renamed onto state_file
    starts,         \* number of process starts so far
    edits,          \* number of changes of work items so far
    calls           \* number of calls the client of SpecApi has made

smVars == <<state, max_retries, current_run_id, proc, disk, content, last,
            published, starts, edits, calls>>

VARIABLES
    rpm_limit,          \* RateLimiter.rpm_limit
    num_keys,           \* RateLimiter.num_keys
    request_times,      \* RateLimiter.request_times: key index -> grant times
    current_key_index,  \* RateLimiter.current_key_index
    lock,               \* RateLimiter.lock: the thread holding it, or NoThread
    thr,                \* the calling threads: position in wait_if_needed
    now,                \* time.time(), in seconds
    grants,             \* history: the grants made, in order
    acquires            \* number of calls of wait_if_needed so far

limVars == <<rpm_limit, num_keys, request_times, current_key_index, lock, thr,
             now, grants, acquires>>

VARIABLES
    rlock,              \* StateManager.lock: the thread owning it, or NoThread
    callers             \* the threads calling StateManager operations

concVars == <<rlock, callers>>

vars == <<smVars, limVars, concVars>>

---------------------------------------------------------------------------
(* Bounds of the model *)

\* max_retries is drawn from 1..MaxRetries
MaxRetries == 2
\* the pipeline process is started at most MaxStarts times
MaxStarts == 2
\* the work items change on disk at most MaxEdits times
MaxEdits == 1
\* the client of SpecApi makes at most MaxCalls calls
MaxCalls == 3

\* scanner.discover_files() lists the files that exist in this order
DiscoveryOrder == <<"A.java", "B.java">>
Files == {DiscoveryOrder[i] : i \in 1..Len(DiscoveryOrder)}
\* the work items that exist at some time in the behaviours of Spec and SpecApi
Existing == {"A.java"}
NoFile == "absent"
Contents == {"v1", "v2"}
\* the CLI commands of main.py: a plain run, --reset, --stats
Modes == {"run", "reset", "stats"}
\* what create_pr returns: a PR number, or 0 when it raises
PrNumbers == {0, 7}

---------------------------------------------------------------------------
(* The document *)

_create_new_state ==
    [ runs  |-> << >>,
      files |-> [f \in Files |->
                   [ present |-> FALSE, status |-> "none", file_hash |-> "",
                     detection |-> [completed |-> FALSE, has_smells |-> FALSE],
                     refactoring |-> [completed |-> FALSE, is_comment_only |-> FALSE,
                                      pr_number |-> 0],
                     attempts |-> 0, last_error |-> "", failed_phase |-> "",
                     history |-> << >> ]],
      statistics |-> [ total_files_processed |-> 0, completed |-> 0, failed |-> 0,
                       skipped |-> 0, prs_created |-> 0,
                       comment_only_refactorings |-> 0, code_refactorings |-> 0,
                       gemini_flash |-> 0, gemini_pro |-> 0 ],
      lacks |-> {} ]

\* sha256(content)[:16], '' when the file cannot be read
_get_file_hash(c) ==
    IF c = NoFile THEN "" ELSE IF c = "v1" THEN "h1" ELSE "h2"

\* _get_file_state creating an item as already completed: C8 is tested
\* against it
_get_file_state_completed(doc, f, c) ==
    IF doc.files[f].present THEN doc
    ELSE [doc EXCEPT !.files[f] =
            [ present |-> TRUE, status |-> "completed", file_hash |-> _get_file_hash(c),
              detection |-> [completed |-> FALSE, has_smells |-> FALSE],
              refactoring |-> [completed |-> FALSE, is_comment_only |-> FALSE,
                               pr_number |-> 0],
              attempts |-> 0, last_error |-> "", failed_phase |-> "",
              history |-> << >> ]]

\* get or create the item state of f; c is the content of f on disk
_get_file_state(doc, f, c) ==
    IF doc.files[f].present THEN doc
    ELSE [doc EXCEPT !.files[f] =
            [ present |-> TRUE, status |-> "pending", file_hash |-> _get_file_hash(c),
              detection |-> [completed |-> FALSE, has_smells |-> FALSE],
              refactoring |-> [completed |-> FALSE, is_comment_only |-> FALSE,
                               pr_number |-> 0],
              attempts |-> 0, last_error |-> "", failed_phase |-> "",
              history |-> << >> ]]

---------------------------------------------------------------------------
(* The state file, its backup and its temp file *)

Absent == [kind |-> "absent", doc |-> _create_new_state]
Partial == [kind |-> "partial", doc |-> _create_new_state]
Written(doc) == [kind |-> "doc", doc |-> doc]
\* a file that exists and cannot be opened or decoded
Unreadable == [kind |-> "unreadable", doc |-> _create_new_state]
\* a directory where a file is expected
Directory == [kind |-> "directory", doc |-> _create_new_state]

\* where a run of _save_state ends: "done" when it returns, otherwise the
\* point at which the process is killed
SaveEnds == {"done", "killed_in_write", "killed_after_write",
             "killed_after_backup", "killed_after_publish"}

\* open(temp_file, 'w') ; json.dump
WriteTemp(dsk, doc) == [dsk EXCEPT !.tmp = Written(doc)]

\* if os.path.exists(state_file): os.replace(state_file, backup)
BackupExisting(dsk) ==
    IF dsk.primary.kind # "absent"
    THEN [dsk EXCEPT !.backup = dsk.primary, !.primary = Absent]
    ELSE dsk

\* os.replace(temp_file, state_file)
PublishTemp(dsk) == [dsk EXCEPT !.primary = dsk.tmp, !.tmp = Absent]

\* the ends of _save_state where the directory of the state file accepts
\* writes, and where it does not: open(temp_file, 'w') raises, the except
\* clause prints a warning and _save_state returns
\* os.replace(state_file, backup) raises: there is a state file to move
\* and the backup path cannot be replaced
BackupFails(dsk) == dsk.primary.kind # "absent" /\ dsk.backup.kind = "directory"

\* where _save_state returns
ReturnEnd(dsk) ==
    IF ~dsk.writable THEN "raised"
    ELSE IF BackupFails(dsk) THEN "raised_in_backup"
    ELSE "done"

Ends(dsk) ==
    IF ~dsk.writable THEN {"raised"}
    ELSE IF BackupFails(dsk)
         THEN {"killed_in_write", "killed_after_write", "raised_in_backup"}
         ELSE SaveEnds

Returned == {"done", "raised", "raised_in_backup"}

_save_state(dsk, doc, end) ==
    CASE end = "raised"              -> dsk
      [] end = "raised_in_backup"    -> WriteTemp(dsk, doc)
      [] end = "killed_in_write"     -> [dsk EXCEPT !.tmp = Partial]
      [] end = "killed_after_write"  -> WriteTemp(dsk, doc)
      [] end = "killed_after_backup" -> BackupExisting(WriteTemp(dsk, doc))
      [] OTHER -> PublishTemp(BackupExisting(WriteTemp(dsk, doc)))

\* open or json.load of the state file raises something else than
\* json.JSONDecodeError, which _load_state does not catch
LoadRaises(dsk) == dsk.primary.kind = "unreadable"

\* if 'version' in state and 'files' in state
ValidStructure(doc) == "version" \notin doc.lacks /\ "files" \notin doc.lacks

\* the document _load_state returns, where it returns
_load_state(dsk) ==
    IF dsk.primary.kind # "absent"
    THEN IF dsk.primary.kind = "doc"
         THEN IF ValidStructure(dsk.primary.doc)
              THEN dsk.primary.doc
              ELSE _create_new_state
         ELSE \* json.JSONDecodeError: try the backup
              IF dsk.backup.kind = "doc" THEN dsk.backup.doc
              ELSE _create_new_state
    ELSE _create_new_state

---------------------------------------------------------------------------
(* Run records *)

\* NewRun numbering every run 1: C16 is tested against it
NewRun_first(id) == [run_id |-> 1, completed |-> FALSE, files_processed |-> 0,
                     prs_created |-> 0]

NewRun(id) == [run_id |-> id, completed |-> FALSE, files_processed |-> 0,
               prs_created |-> 0]

\* HasOpenRun taking a closed last run for an open one: C17 is tested
\* against it
HasOpenRun_any(doc) == Len(doc.runs) > 0

HasOpenRun(doc) == Len(doc.runs) > 0 /\ ~doc.runs[Len(doc.runs)].completed

\* _init_current_run starting a new run whatever the last run record is:
\* C15 is tested against it
_init_current_run_new(doc) ==
    [doc |-> [doc EXCEPT !.runs = Append(doc.runs, NewRun(Len(doc.runs) + 1))],
     run_id |-> Len(doc.runs) + 1, save |-> TRUE]

\* the document and the run id _init_current_run leaves
_init_current_run(doc) ==
    IF HasOpenRun(doc)
    THEN [doc |-> doc, run_id |-> doc.runs[Len(doc.runs)].run_id, save |-> FALSE]
    ELSE [doc |-> [doc EXCEPT !.runs = Append(doc.runs, NewRun(Len(doc.runs) + 1)),
                              !.lacks = @ \ {"runs"}],
          run_id |-> Len(doc.runs) + 1, save |-> TRUE]

complete_run(doc) ==
    IF HasOpenRun(doc)
    THEN [doc EXCEPT !.runs[Len(doc.runs)].completed = TRUE]
    ELSE doc

\* reset keeping the run records: C33 is tested against it
reset_keeping_runs(doc) == [_create_new_state EXCEPT !.runs = doc.runs]

\* reset(): self.state = self._create_new_state()
reset(doc) == _create_new_state

\* has_previous_run(): len(self.state.get('files', {})) > 0
has_previous_run(doc) == \E f \in Files : doc.files[f].present

---------------------------------------------------------------------------
(* The public operations, as functions of the document *)

\* HashChanged with the comparison turned round: C7 is tested against it
HashChanged_eq(current_hash, fs) == current_hash = fs.file_hash

\* if current_hash != file_state.get('file_hash', '')
HashChanged(current_hash, fs) == current_hash # fs.file_hash

\* RetriesExhausted one attempt late: C6 is tested against it
RetriesExhausted_gt(fs, mr) == fs.status = "failed" /\ fs.attempts > mr

\* RetriesExhausted refusing no item: C28 is tested against it
RetriesExhausted_never(fs, mr) == FALSE

\* if file_state['status'] == 'failed' and file_state['attempts'] >= self.max_retries
RetriesExhausted(fs, mr) == fs.status = "failed" /\ fs.attempts >= mr

should_process(doc, f, c, mr) ==
    LET d1 == _get_file_state(doc, f, c)
        fs == d1.files[f]
        current_hash == _get_file_hash(c)
    IN  IF c = NoFile
        THEN [doc |-> d1, ok |-> FALSE, reason |-> "file_not_found"]
        ELSE IF fs.status = "completed"
        THEN IF HashChanged(current_hash, fs)
             THEN [doc |-> [d1 EXCEPT !.files[f].status = "pending",
                                      !.files[f].file_hash = current_hash,
                                      !.files[f].history = Append(@, "file_changed")],
                   ok |-> TRUE, reason |-> "file_changed"]
             ELSE [doc |-> d1, ok |-> FALSE, reason |-> "already_completed"]
        ELSE IF RetriesExhausted(fs, mr)
        THEN [doc |-> d1, ok |-> FALSE, reason |-> "max_retries_exceeded"]
        ELSE [doc |-> d1, ok |-> TRUE, reason |-> "ready"]

\* start_processing that does not count the attempt: C9 is tested against it
start_processing_uncounted(doc, f, c) ==
    LET d1 == _get_file_state(doc, f, c)
    IN  [d1 EXCEPT !.files[f].status = "processing",
                   !.files[f].history = Append(@, "start_processing")]

start_processing(doc, f, c) ==
    LET d1 == _get_file_state(doc, f, c)
    IN  [d1 EXCEPT !.files[f].attempts = @ + 1,
                   !.files[f].status = "processing",
                   !.files[f].history = Append(@, "start_processing")]

mark_detection_complete(doc, f, c, has_smells) ==
    LET d1 == _get_file_state(doc, f, c)
    IN  [d1 EXCEPT !.files[f].detection = [completed |-> TRUE, has_smells |-> has_smells],
                   !.statistics.gemini_flash = @ + 1]

\* mark_refactoring_complete recording nothing: C11 is tested against it
mark_refactoring_complete_nothing(doc, f, c, pr_number, is_comment_only) ==
    _get_file_state(doc, f, c)

mark_refactoring_complete(doc, f, c, pr_number, is_comment_only) ==
    LET d1 == _get_file_state(doc, f, c)
    IN  [d1 EXCEPT !.files[f].refactoring =
                       [completed |-> TRUE, is_comment_only |-> is_comment_only,
                        pr_number |-> pr_number],
                   !.statistics.gemini_pro = @ + 1]

mark_completed(doc, f, c) ==
    LET d1 == _get_file_state(doc, f, c)
        fs == d1.files[f]
        prs == IF fs.refactoring.pr_number # 0 THEN 1 ELSE 0
        d2 == [d1 EXCEPT
                 !.files[f].status = "completed",
                 !.files[f].history = Append(@, "mark_completed"),
                 !.statistics.completed = @ + 1,
                 !.statistics.total_files_processed = @ + 1,
                 !.statistics.comment_only_refactorings =
                     IF fs.refactoring.is_comment_only THEN @ + 1 ELSE @,
                 !.statistics.code_refactorings =
                     IF fs.refactoring.is_comment_only THEN @ ELSE @ + 1,
                 !.statistics.prs_created = @ + prs]
    IN  IF Len(d2.runs) > 0
        THEN [d2 EXCEPT !.runs[Len(d2.runs)].files_processed = @ + 1,
                        !.runs[Len(d2.runs)].prs_created = @ + prs]
        ELSE d2

\* GiveUp one attempt late: C10 is tested against it
GiveUp_gt(fs, mr) == fs.attempts > mr

\* if file_state['attempts'] >= self.max_retries
GiveUp(fs, mr) == fs.attempts >= mr

mark_failed(doc, f, c, mr, error, phase) ==
    LET d1 == _get_file_state(doc, f, c)
        d2 == [d1 EXCEPT !.files[f].last_error = error,
                         !.files[f].failed_phase = phase,
                         !.files[f].history = Append(@, "mark_failed")]
    IN  IF GiveUp(d2.files[f], mr)
        THEN [d2 EXCEPT !.files[f].status = "failed",
                        !.statistics.failed = @ + 1]
        ELSE [d2 EXCEPT !.files[f].status = "pending"]

\* mark_skipped counting an attempt: C35 is tested against it
mark_skipped_counted(doc, f, c) ==
    LET d1 == _get_file_state(doc, f, c)
    IN  [d1 EXCEPT !.files[f].status = "skipped",
                   !.files[f].attempts = @ + 1,
                   !.files[f].history = Append(@, "mark_skipped"),
                   !.statistics.skipped = @ + 1]

\* mark_skipped clearing the attempts of the item: C29 is tested against it
mark_skipped_clearing(doc, f, c) ==
    LET d1 == _get_file_state(doc, f, c)
    IN  [d1 EXCEPT !.files[f].status = "skipped",
                   !.files[f].attempts = 0,
                   !.files[f].history = Append(@, "mark_skipped"),
                   !.statistics.skipped = @ + 1]

mark_skipped(doc, f, c) ==
    LET d1 == _get_file_state(doc, f, c)
    IN  [d1 EXCEPT !.files[f].status = "skipped",
                   !.files[f].history = Append(@, "mark_skipped"),
                   !.statistics.skipped = @ + 1]

\* get_summary(): the counters of the summary view
get_summary(doc, mr) ==
    [ total_discovered |-> Cardinality({f \in Files : doc.files[f].present}),
      completed |-> doc.statistics.completed,
      failed |-> doc.statistics.failed,
      skipped |-> doc.statistics.skipped,
      pending |-> Cardinality({f \in Files :
                                 /\ doc.files[f].present
                                 /\ doc.files[f].status \in {"pending", "processing"}
                                 /\ doc.files[f].attempts < mr}),
      prs_created |-> doc.statistics.prs_created ]

---------------------------------------------------------------------------
(* The process and the calls it makes *)

\* the pipeline process is not running
DeadProc == [pc |-> "dead", mode |-> "", files_to_scan |-> << >>,
             remaining_files |-> << >>, filepath |-> "",
             gemini_refactoring |-> FALSE, exc |-> ""]

alive == proc.pc # "dead"

\* the pipeline process has terminated in an orderly way: what is left of it
\* is the mode it ran in
Exited == [DeadProc EXCEPT !.mode = proc.mode]

At(pc) == proc.pc = pc

Goto(pc) == [proc EXCEPT !.pc = pc]

\* a call of operation op on item f; again: the call before it was the
\* same call with the same arguments
Call(op, f, args) ==
    [op |-> op, file |-> f, args |-> args, ok |-> FALSE, reason |-> "",
     again |-> last.op = op /\ last.file = f /\ last.args = args]

NoArgs == [flag |-> FALSE, pr |-> 0, error |-> "", phase |-> ""]

\* the process ends, leaving left: its memory is gone
Ended(left) ==
    /\ proc' = left
    /\ state' = _create_new_state
    /\ current_run_id' = 0

\* the process is killed
Gone == Ended(DeadProc)
\* the process that ended in the constructor, before a manager existed
Aborted == [DeadProc EXCEPT !.exc = "load_error"]

\* _save_state(doc) ending as end, after which the process goes on as next
\* unless it was killed
PersistEnd(doc, next, end) ==
    /\ disk' = _save_state(disk, doc, end)
    /\ published' = IF end \in {"done", "killed_after_publish"}
                    THEN [some |-> TRUE, doc |-> doc]
                    ELSE published
    /\ IF end \in Returned /\ next.pc # "dead"
       THEN /\ proc' = next
            /\ state' = doc
            /\ UNCHANGED current_run_id
       ELSE IF end \in Returned THEN Ended(next) ELSE Gone

\* the write-through of an operation: _save_state(doc) runs to its end and
\* the process goes on as next, or the process is killed inside _save_state
Persist(doc, next) == \E end \in Ends(disk) : PersistEnd(doc, next, end)

\* the write-through of an operation that nothing interrupts
Save(doc, next) == PersistEnd(doc, next, ReturnEnd(disk))

\* an operation that writes nothing
NoSave(doc, next) ==
    /\ UNCHANGED <<disk, published>>
    /\ IF next.pc # "dead"
       THEN /\ proc' = next
            /\ state' = doc
            /\ UNCHANGED current_run_id
       ELSE Ended(next)

---------------------------------------------------------------------------
(* Actions of Spec: main.py *)

\* main(): StateManager(Config.STATE_FILE, Config.MAX_RETRIES), that is
\* _load_state then _init_current_run; mode is the CLI command
Start(mode) ==
    /\ At("dead")
    /\ starts < MaxStarts
    /\ starts' = starts + 1
    /\ LET r == _init_current_run(_load_state(disk))
           next == [DeadProc EXCEPT !.pc = IF mode = "run" THEN "discover" ELSE "cli",
                                    !.mode = mode]
       IN  IF LoadRaises(disk)
           THEN \* the constructor raises: "Fatal error", exit 1, no manager
                /\ Ended(Aborted)
                /\ UNCHANGED <<disk, published>>
           ELSE \E end \in (IF r.save THEN Ends(disk) ELSE {"none"}) :
                /\ disk' = IF r.save THEN _save_state(disk, r.doc, end) ELSE disk
                /\ published' = IF end \in {"done", "killed_after_publish"}
                                THEN [some |-> TRUE, doc |-> r.doc]
                                ELSE published
                /\ IF end \in Returned \cup {"none"}
                   THEN /\ proc' = next
                        /\ state' = r.doc
                        /\ current_run_id' = r.run_id
                   ELSE Gone
    /\ last' = Call("init", "", NoArgs)
    /\ UNCHANGED <<limVars, concVars, max_retries, content, edits, calls>>

\* main(): --reset runs reset() and returns, --stats prints and returns
CliCommand ==
    /\ At("cli")
    /\ IF proc.mode = "reset"
       THEN /\ Persist(reset(state), Exited)
            /\ last' = Call("reset", "", NoArgs)
       ELSE /\ Ended(Exited)
            /\ UNCHANGED <<disk, published>>
            /\ last' = Call("get_summary", "", NoArgs)
    /\ UNCHANGED <<limVars, concVars, max_retries, content, starts, edits, calls>>

\* scanner.discover_files(): the files that exist, in the scanner's order
Discover ==
    /\ At("discover")
    /\ LET found == SelectSeq(DiscoveryOrder, LAMBDA f : content[f] # NoFile)
       IN  IF found = << >>
           THEN Ended(Exited)
           ELSE /\ proc' = [proc EXCEPT !.pc = "filter", !.files_to_scan = found]
                /\ UNCHANGED <<state, current_run_id>>
    /\ UNCHANGED <<limVars, concVars, max_retries, disk, content, last, published, starts, edits, calls>>

\* main(): one iteration of the filter loop, and what follows the last one
Filter ==
    /\ At("filter")
    /\ LET f == Head(proc.files_to_scan)
           r == should_process(state, f, content[f], max_retries)
           rem == IF r.ok THEN Append(proc.remaining_files, f) ELSE proc.remaining_files
           rest == Tail(proc.files_to_scan)
       IN  /\ NoSave(r.doc,
                     IF rest # << >>
                     THEN [proc EXCEPT !.files_to_scan = rest, !.remaining_files = rem]
                     ELSE IF rem = << >> THEN Exited
                     ELSE [proc EXCEPT !.pc = "loop", !.files_to_scan = rest,
                                       !.remaining_files = rem])
           /\ last' = [Call("should_process", f, NoArgs) EXCEPT
                          !.ok = r.ok, !.reason = r.reason]
    /\ UNCHANGED <<limVars, concVars, max_retries, content, starts, edits, calls>>

\* main(): the head of the processing loop for the next remaining file,
\* up to start_processing in process_file_with_state
Loop ==
    /\ At("loop")
    /\ proc.remaining_files # << >>
    /\ LET f == Head(proc.remaining_files)
           rest == Tail(proc.remaining_files)
       IN  IF content[f] = NoFile
           THEN /\ Persist(mark_skipped(state, f, content[f]),
                           [proc EXCEPT !.remaining_files = rest])
                /\ last' = Call("mark_skipped", f, NoArgs)
           ELSE /\ Persist(start_processing(state, f, content[f]),
                           [proc EXCEPT !.pc = "detect", !.remaining_files = rest,
                                        !.filepath = f, !.gemini_refactoring = FALSE])
                /\ last' = Call("start_processing", f, NoArgs)
    /\ UNCHANGED <<limVars, concVars, max_retries, content, starts, edits, calls>>

\* process_file_with_state, phase 1: detector.analyze_file raises, or returns
\* has_smells
Detect(outcome) ==
    /\ At("detect")
    /\ LET f == proc.filepath
           fs == state.files[f]
       IN  IF outcome = "raise"
           THEN /\ NoSave(state, [proc EXCEPT !.pc = "fail", !.exc = "analysis failed"])
                /\ UNCHANGED last
           ELSE IF ~fs.detection.completed
           THEN /\ Persist(mark_detection_complete(state, f, content[f], outcome = "smells"),
                           Goto(IF outcome = "smells" THEN "refactor" ELSE "skip"))
                /\ last' = Call("mark_detection_complete", f,
                                [NoArgs EXCEPT !.flag = (outcome = "smells")])
           ELSE /\ NoSave(state, Goto(IF fs.detection.has_smells THEN "refactor" ELSE "skip"))
                /\ UNCHANGED last
    /\ UNCHANGED <<limVars, concVars, max_retries, content, starts, edits, calls>>

\* process_file_with_state: mark_skipped(filepath, 'no_smells_detected')
Skip ==
    /\ At("skip")
    /\ Persist(mark_skipped(state, proc.filepath, content[proc.filepath]), Goto("loop"))
    /\ last' = Call("mark_skipped", proc.filepath, NoArgs)
    /\ UNCHANGED <<limVars, concVars, max_retries, content, starts, edits, calls>>

\* process_file_with_state, phase 2: refactorer.refactor and save_report
Refactor(outcome) ==
    /\ At("refactor")
    /\ LET fs == state.files[proc.filepath]
       IN  IF ~fs.refactoring.completed
           THEN IF outcome = "raise"
                THEN NoSave(state, [proc EXCEPT !.pc = "fail", !.exc = "refactoring failed"])
                ELSE NoSave(state, [proc EXCEPT !.pc = "pr", !.gemini_refactoring = TRUE])
           ELSE NoSave(state, [proc EXCEPT !.pc = "pr", !.gemini_refactoring = FALSE])
    /\ UNCHANGED <<limVars, concVars, max_retries, content, last, starts, edits, calls>>

\* process_file_with_state, phase 3: git_handler.create_pr returns PR pr, or
\* raises (pr = 0)
CreatePR(pr) ==
    /\ At("pr")
    /\ LET f == proc.filepath
           fs == state.files[f]
       IN  IF fs.refactoring.pr_number = 0 /\ proc.gemini_refactoring
           THEN /\ Persist(mark_refactoring_complete(state, f, content[f], pr, FALSE),
                           Goto("complete"))
                /\ last' = Call("mark_refactoring_complete", f, [NoArgs EXCEPT !.pr = pr])
           ELSE /\ NoSave(state, Goto("complete"))
                /\ UNCHANGED last
    /\ UNCHANGED <<limVars, concVars, max_retries, content, starts, edits, calls>>

\* process_file_with_state: mark_completed(filepath)
Complete ==
    /\ At("complete")
    /\ Persist(mark_completed(state, proc.filepath, content[proc.filepath]), Goto("loop"))
    /\ last' = Call("mark_completed", proc.filepath, NoArgs)
    /\ UNCHANGED <<limVars, concVars, max_retries, content, starts, edits, calls>>

\* the phase the except clause of process_file_with_state names
FailedPhase(fs) ==
    IF fs.detection.completed
    THEN IF ~fs.refactoring.completed THEN "refactoring_gemini" ELSE "pr_creation"
    ELSE "detection"

\* an except clause that raises the exception again, which ends main():
\* C34 is tested against it
Caught_raising(p) == [DeadProc EXCEPT !.mode = p.mode, !.exc = p.exc]

\* the except clause ends with `return None`: process p is back in the
\* processing loop of main(), the exception is gone
Caught(p) == [p EXCEPT !.pc = "loop", !.exc = ""]

\* process_file_with_state: except Exception as e: mark_failed(filepath, str(e), phase)
Fail ==
    /\ At("fail")
    /\ LET f == proc.filepath
           phase == FailedPhase(state.files[f])
       IN  /\ Persist(mark_failed(state, f, content[f], max_retries, proc.exc, phase),
                      Caught(proc))
           /\ last' = Call("mark_failed", f,
                           [NoArgs EXCEPT !.error = proc.exc, !.phase = phase])
    /\ UNCHANGED <<limVars, concVars, max_retries, content, starts, edits, calls>>

\* main(): the batch is finished: complete_run(), print_summary(), return
Finish ==
    /\ At("loop")
    /\ proc.remaining_files = << >>
    /\ IF HasOpenRun(state)
       THEN Persist(complete_run(state), Exited)
       ELSE NoSave(state, Exited)
    /\ last' = Call("complete_run", "", NoArgs)
    /\ UNCHANGED <<limVars, concVars, max_retries, content, starts, edits, calls>>

\* main() raises before the batch starts (the components cannot be set up,
\* discover_files raises): except Exception: complete_run(), sys.exit(1)
Fatal ==
    /\ At("discover")
    /\ IF HasOpenRun(state)
       THEN Persist(complete_run(state), Exited)
       ELSE NoSave(state, Exited)
    /\ last' = Call("complete_run", "", NoArgs)
    /\ UNCHANGED <<limVars, concVars, max_retries, content, starts, edits, calls>>

\* signal_handler: complete_run(), print_summary(), sys.exit(0)
Interrupt ==
    /\ alive
    /\ ~At("api")
    /\ IF HasOpenRun(state)
       THEN Persist(complete_run(state), Exited)
       ELSE NoSave(state, Exited)
    /\ last' = Call("complete_run", "", NoArgs)
    /\ UNCHANGED <<limVars, concVars, max_retries, content, starts, edits, calls>>

\* doc with the item state of f changed as change says and the interruption
\* noted in its history
Begun(doc, f, change) ==
    LET d1 == _get_file_state(doc, f, content[f])
        fs == d1.files[f]
    IN  [d1 EXCEPT !.files[f] =
            [(CASE change = "attempts"    -> [fs EXCEPT !.attempts = @ + 1]
                [] change = "skipped"     -> [fs EXCEPT !.status = "skipped"]
                [] change = "smells"      ->
                       [fs EXCEPT !.detection = [completed |-> TRUE, has_smells |-> TRUE]]
                [] change = "clean"       ->
                       [fs EXCEPT !.detection = [completed |-> TRUE, has_smells |-> FALSE]]
                [] change = "refactoring" ->
                       [fs EXCEPT !.refactoring = [completed |-> TRUE,
                                                   is_comment_only |-> FALSE,
                                                   pr_number |-> 0]]
                [] change = "completed"   -> [fs EXCEPT !.status = "completed"]
                [] OTHER                  -> [fs EXCEPT !.last_error = proc.exc])
             EXCEPT !.history = Append(@, "interrupted")]]

\* the operation of the StateManager the process is about to call, as the
\* first assignment that operation makes to the item state
NextChanges ==
    CASE At("loop") /\ proc.remaining_files # << >> ->
             IF content[Head(proc.remaining_files)] = NoFile
             THEN {"skipped"} ELSE {"attempts"}
      [] At("detect") /\ ~state.files[proc.filepath].detection.completed ->
             {"smells", "clean"}
      [] At("skip") -> {"skipped"}
      [] At("pr") /\ state.files[proc.filepath].refactoring.pr_number = 0
                  /\ proc.gemini_refactoring -> {"refactoring"}
      [] At("complete") -> {"completed"}
      [] At("fail") -> {"last_error"}
      [] OTHER -> {}

\* the signal arrives inside an operation of the StateManager, after its
\* first assignment to the item state and before its _save_state:
\* signal_handler runs there, complete_run(), print_summary(), sys.exit(0)
InterruptInside ==
    /\ alive
    /\ \E change \in NextChanges :
          LET f == IF At("loop") THEN Head(proc.remaining_files) ELSE proc.filepath
              doc == Begun(state, f, change)
          IN  IF HasOpenRun(doc)
              THEN Persist(complete_run(doc), Exited)
              ELSE NoSave(doc, Exited)
    /\ last' = Call("complete_run", "", NoArgs)
    /\ UNCHANGED <<limVars, concVars, max_retries, content, starts, edits, calls>>

\* the process is killed outside _save_state
Kill ==
    /\ alive
    /\ Gone
    /\ UNCHANGED <<limVars, concVars, max_retries, disk, content, last, published, starts, edits, calls>>

\* the work item f changes on disk: edited, deleted or created
EditFile(f, c) ==
    /\ c # content[f]
    /\ edits < MaxEdits
    /\ edits' = edits + 1
    /\ content' = [content EXCEPT ![f] = c]
    /\ UNCHANGED <<limVars, concVars, state, max_retries, current_run_id, proc, disk, last, published,
                   starts, calls>>

---------------------------------------------------------------------------
(* Actions of SpecApi: a client calling the public operations *)

ApiNext == [proc EXCEPT !.pc = "api"]

Counted ==
    /\ At("api")
    /\ calls < MaxCalls
    /\ calls' = calls + 1

ApiShouldProcess(f) ==
    /\ Counted
    /\ LET r == should_process(state, f, content[f], max_retries)
       IN  /\ NoSave(r.doc, ApiNext)
           /\ last' = [Call("should_process", f, NoArgs) EXCEPT
                          !.ok = r.ok, !.reason = r.reason]
    /\ UNCHANGED <<limVars, concVars, max_retries, content, starts, edits>>

ApiStartProcessing(f) ==
    /\ Counted
    /\ Save(start_processing(state, f, content[f]), ApiNext)
    /\ last' = Call("start_processing", f, NoArgs)
    /\ UNCHANGED <<limVars, concVars, max_retries, content, starts, edits>>

ApiMarkDetectionComplete(f, has_smells) ==
    /\ Counted
    /\ Save(mark_detection_complete(state, f, content[f], has_smells), ApiNext)
    /\ last' = Call("mark_detection_complete", f, [NoArgs EXCEPT !.flag = has_smells])
    /\ UNCHANGED <<limVars, concVars, max_retries, content, starts, edits>>

ApiMarkRefactoringComplete(f, pr_number, is_comment_only) ==
    /\ Counted
    /\ Save(mark_refactoring_complete(state, f, content[f], pr_number, is_comment_only),
               ApiNext)
    /\ last' = Call("mark_refactoring_complete", f,
                    [NoArgs EXCEPT !.pr = pr_number, !.flag = is_comment_only])
    /\ UNCHANGED <<limVars, concVars, max_retries, content, starts, edits>>

ApiMarkCompleted(f) ==
    /\ Counted
    /\ Save(mark_completed(state, f, content[f]), ApiNext)
    /\ last' = Call("mark_completed", f, NoArgs)
    /\ UNCHANGED <<limVars, concVars, max_retries, content, starts, edits>>

ApiMarkFailed(f, error, phase) ==
    /\ Counted
    /\ Save(mark_failed(state, f, content[f], max_retries, error, phase), ApiNext)
    /\ last' = Call("mark_failed", f, [NoArgs EXCEPT !.error = error, !.phase = phase])
    /\ UNCHANGED <<limVars, concVars, max_retries, content, starts, edits>>

ApiMarkSkipped(f) ==
    /\ Counted
    /\ Save(mark_skipped(state, f, content[f]), ApiNext)
    /\ last' = Call("mark_skipped", f, NoArgs)
    /\ UNCHANGED <<limVars, concVars, max_retries, content, starts, edits>>

ApiCompleteRun ==
    /\ Counted
    /\ IF HasOpenRun(state)
       THEN Save(complete_run(state), ApiNext)
       ELSE NoSave(state, ApiNext)
    /\ last' = Call("complete_run", "", NoArgs)
    /\ UNCHANGED <<limVars, concVars, max_retries, content, starts, edits>>

ApiReset ==
    /\ Counted
    /\ Save(reset(state), ApiNext)
    /\ last' = Call("reset", "", NoArgs)
    /\ UNCHANGED <<limVars, concVars, max_retries, content, starts, edits>>

---------------------------------------------------------------------------
(* The call admission limiter: models/rate_limiter.py *)

\* rpm_limit is drawn from 1..MaxRpm, num_keys from 1..MaxKeys
MaxRpm == 2
MaxKeys == 2
\* the threads calling wait_if_needed
Threads == {1, 2}
\* wait_if_needed is called at most MaxAcquires times
MaxAcquires == 5
\* time runs up to MaxTime seconds
MaxTime == 93

\* the window of the limiter, in seconds
Window == 60
\* the safety margin added to the sleep, in seconds
Margin == 1
\* the steps in which time passes
TickSet == {30, 31}

NoThread == 0

Min(S) == CHOOSE x \in S : \A y \in S : x <= y

\* while times and current_time - times[0] > 60: times.popleft()
RECURSIVE Evict(_, _)
Evict(times, current_time) ==
    IF times # << >> /\ current_time - Head(times) > Window
    THEN Evict(Tail(times), current_time)
    ELSE times

\* HasCapacity admitting one grant more: C3 is tested against it
HasCapacity_le(times, limit) == Len(times) <= limit

\* if len(times) < self.rpm_limit
HasCapacity(times, limit) == Len(times) < limit

\* NextKeyIndex leaving the cursor on the key granted: C5 is tested against it
NextKeyIndex_stay(key_idx, n) == key_idx

\* self.current_key_index = (key_idx + 1) % self.num_keys
NextKeyIndex(key_idx, n) == (key_idx + 1) % n

\* the for loop of wait_if_needed from iteration attempt on: the key it
\* grants, or none, and request_times as it leaves them
RECURSIVE FindKey(_, _, _)
FindKey(rt, attempt, current_time) ==
    IF attempt = num_keys
    THEN [granted |-> FALSE, key_idx |-> 0, rt |-> rt]
    ELSE LET key_idx == (current_key_index + attempt) % num_keys
             times == Evict(rt[key_idx], current_time)
         IN  IF HasCapacity(times, rpm_limit)
             THEN [granted |-> TRUE, key_idx |-> key_idx,
                   rt |-> [rt EXCEPT ![key_idx] = Append(times, current_time)]]
             ELSE FindKey([rt EXCEPT ![key_idx] = times], attempt + 1, current_time)

\* sleep_time = 60 - (current_time - oldest_time) + 1
SleepTime(rt, current_time) ==
    LET oldest_time == Min({Head(rt[k]) : k \in {k \in DOMAIN rt : rt[k] # << >>}})
    IN  Window - (current_time - oldest_time) + Margin

\* a thread outside wait_if_needed and generate; gen tells a thread inside
\* GeminiClient.generate, key_idx and attempt are the locals of generate,
\* got the keys wait_if_needed returned to this generate and used the keys
\* of the calls it sent
Idle == [pc |-> "idle", wake |-> 0, depth |-> 0, gen |-> FALSE, key_idx |-> 0,
         attempt |-> 0, got |-> << >>, used |-> << >>, current_time |-> 0]

\* the thread to which wait_if_needed returns key_idx
Granted(th, key_idx) ==
    IF th.gen
    THEN [th EXCEPT !.pc = "call", !.wake = 0, !.depth = 0, !.key_idx = key_idx,
                    !.got = Append(@, key_idx)]
    ELSE Idle

\* a thread calls wait_if_needed
CallWait(t) ==
    /\ thr[t].pc = "idle"
    /\ acquires < MaxAcquires
    /\ acquires' = acquires + 1
    /\ thr' = [thr EXCEPT ![t].pc = "lock"]
    /\ UNCHANGED <<smVars, concVars, rpm_limit, num_keys, request_times, current_key_index, lock, now,
                   grants>>

\* with self.lock: the thread takes the lock, reads the time and runs the for
\* loop; it returns the key granted (leaving the with block), or computes
\* the sleep and sleeps inside the with block
Acquire(t) ==
    /\ thr[t].pc = "lock"
    /\ lock = NoThread
    /\ LET r == FindKey(request_times, 0, now)
       IN  /\ request_times' = r.rt
           /\ IF r.granted
              THEN /\ current_key_index' = NextKeyIndex(r.key_idx, num_keys)
                   /\ grants' = Append(grants, [key |-> r.key_idx, time |-> now,
                                                thread |-> t])
                   /\ thr' = [thr EXCEPT ![t] = Granted(thr[t], r.key_idx)]
                   /\ lock' = NoThread
              ELSE /\ thr' = [thr EXCEPT ![t].pc = "sleeping",
                                         ![t].wake = now + SleepTime(r.rt, now)]
                   /\ lock' = t
                   /\ UNCHANGED <<current_key_index, grants>>
    /\ UNCHANGED <<smVars, concVars, rpm_limit, num_keys, now, acquires>>

\* time.sleep(sleep_time) is over: return self.wait_if_needed(), called
\* inside the with block
Retry(t) ==
    /\ thr[t].pc = "sleeping"
    /\ now >= thr[t].wake
    /\ thr' = [thr EXCEPT ![t].pc = "lock", ![t].depth = @ + 1]
    /\ UNCHANGED <<smVars, concVars, rpm_limit, num_keys, request_times, current_key_index, lock, now,
                   grants, acquires>>

\* time passes
Tick(d) ==
    /\ now + d <= MaxTime
    /\ now' = now + d
    /\ UNCHANGED <<smVars, concVars, rpm_limit, num_keys, request_times, current_key_index, lock, thr,
                   grants, acquires>>

---------------------------------------------------------------------------
(* The specifications *)

InitDisk == [primary |-> Absent, backup |-> Absent, tmp |-> Absent,
             writable |-> TRUE]

\* a thread that is in no StateManager operation
Outside == [pc |-> "outside", op |-> "", file |-> "", args |-> NoArgs,
            left |-> _create_new_state, wrote |-> FALSE]

\* no thread is in a StateManager operation
ConcQuiet ==
    /\ rlock = NoThread
    /\ callers = [t \in Threads |-> Outside]

\* no RateLimiter is in use
LimQuiet ==
    /\ rpm_limit = 1
    /\ num_keys = 1
    /\ request_times = [k \in {0} |-> << >>]
    /\ current_key_index = 0
    /\ lock = NoThread
    /\ thr = [t \in Threads |-> Idle]
    /\ now = 0
    /\ grants = << >>
    /\ acquires = 0

\* ---- the constructor on state files it did not write itself ----

\* the top-level keys of the document
TopLevelKeys == {"version", "runs", "files", "statistics"}

\* doc as a JSON object that has no such key
Without(doc, key) ==
    [doc EXCEPT !.lacks = {key}, !.runs = IF key = "runs" THEN << >> ELSE @]

\* documents found in a state file: of no run, of an open run, of a closed
\* run, each complete or without one of the top-level keys
DocInputs ==
    LET opened == _init_current_run(_create_new_state).doc
        whole == {_create_new_state, opened, complete_run(opened)}
    IN  whole \cup {Without(d, k) : d \in whole, k \in TopLevelKeys}

\* what a state file or its backup can be
FileInputs == {Absent, Partial, Unreadable} \cup {Written(d) : d \in DocInputs}

InitLoad ==
    /\ max_retries \in 1..MaxRetries
    /\ state = _create_new_state
    /\ current_run_id = 0
    /\ proc = DeadProc
    /\ disk \in {[primary |-> p, backup |-> b, tmp |-> Absent, writable |-> TRUE] :
                    p \in FileInputs, b \in FileInputs}
    /\ published = [some |-> FALSE, doc |-> _create_new_state]
    /\ content = [f \in Files |-> NoFile]
    /\ last = [op |-> "none", file |-> "", args |-> NoArgs, ok |-> FALSE,
               reason |-> "", again |-> FALSE]
    /\ starts = 0
    /\ edits = 0
    /\ calls = 0
    /\ LimQuiet
    /\ ConcQuiet

NextLoad ==
    \/ \E mode \in Modes : Start(mode)
    \/ Kill

SpecLoad == InitLoad /\ [][NextLoad]_vars

\* ---- the operations where the state file cannot be written ----

\* a manager constructed where the directory of the state file accepts no
\* write (the constructor's own save has failed too, and no file exists), or
\* where the backup path is a directory (the constructor's save had no state
\* file to move and has published)
InitFault ==
    /\ max_retries \in 1..MaxRetries
    /\ LET r == _init_current_run(_load_state(InitDisk))
           blocked == [InitDisk EXCEPT !.backup = Directory]
       IN  /\ state = r.doc
           /\ current_run_id = r.run_id
           /\ \/ /\ disk = [InitDisk EXCEPT !.writable = FALSE]
                 /\ published = [some |-> FALSE, doc |-> _create_new_state]
              \/ /\ disk = _save_state(blocked, r.doc, ReturnEnd(blocked))
                 /\ published = [some |-> TRUE, doc |-> r.doc]
    /\ proc = [DeadProc EXCEPT !.pc = "api"]
    /\ content \in {c \in [Files -> {"v1", NoFile}] :
                       \A f \in Files \ Existing : c[f] = NoFile}
    /\ last = [op |-> "init", file |-> "", args |-> NoArgs, ok |-> FALSE,
               reason |-> "", again |-> FALSE]
    /\ starts = 1
    /\ edits = 0
    /\ calls = 0
    /\ LimQuiet
    /\ ConcQuiet

\* no state file yet, no process running
Init ==
    /\ max_retries \in 1..MaxRetries
    /\ state = _create_new_state
    /\ current_run_id = 0
    /\ proc = DeadProc
    /\ disk = InitDisk
    /\ published = [some |-> FALSE, doc |-> _create_new_state]
    /\ content \in {c \in [Files -> {"v1", NoFile}] :
                       \A f \in Files \ Existing : c[f] = NoFile}
    /\ last = [op |-> "none", file |-> "", args |-> NoArgs, ok |-> FALSE,
               reason |-> "", again |-> FALSE]
    /\ starts = 0
    /\ edits = 0
    /\ calls = 0
    /\ LimQuiet
    /\ ConcQuiet

Next ==
    \/ \E mode \in Modes : Start(mode)
    \/ CliCommand
    \/ Discover
    \/ Filter
    \/ Loop
    \/ \E o \in {"raise", "smells", "clean"} : Detect(o)
    \/ Skip
    \/ \E o \in {"raise", "ok"} : Refactor(o)
    \/ \E pr \in PrNumbers : CreatePR(pr)
    \/ Complete
    \/ Fail
    \/ Finish
    \/ Fatal
    \/ Interrupt
    \/ InterruptInside
    \/ Kill
    \/ \E f \in Existing, c \in Contents \cup {NoFile} : EditFile(f, c)

Spec == Init /\ [][Next]_vars

\* a batch of two work items: both exist and neither changes
InitBatch ==
    /\ max_retries \in 1..MaxRetries
    /\ state = _create_new_state
    /\ current_run_id = 0
    /\ proc = DeadProc
    /\ disk = InitDisk
    /\ published = [some |-> FALSE, doc |-> _create_new_state]
    /\ content = [f \in Files |-> "v1"]
    /\ last = [op |-> "none", file |-> "", args |-> NoArgs, ok |-> FALSE,
               reason |-> "", again |-> FALSE]
    /\ starts = 0
    /\ edits = 0
    /\ calls = 0
    /\ LimQuiet
    /\ ConcQuiet

NextBatch ==
    \/ Start("run")
    \/ Discover
    \/ Filter
    \/ Loop
    \/ \E o \in {"raise", "smells", "clean"} : Detect(o)
    \/ Skip
    \/ \E o \in {"raise", "ok"} : Refactor(o)
    \/ \E pr \in PrNumbers : CreatePR(pr)
    \/ Complete
    \/ Fail
    \/ Finish
    \/ Interrupt
    \/ Kill

SpecBatch == InitBatch /\ [][NextBatch]_vars

\* the failures a client reports
Failures == {[error |-> "analysis failed", phase |-> "detection"],
             [error |-> "refactoring failed", phase |-> "refactoring_gemini"]}

\* a StateManager constructed on an empty directory, in the hands of a client
InitApi ==
    /\ max_retries \in 1..MaxRetries
    /\ LET r == _init_current_run(_load_state(InitDisk))
       IN  /\ state = r.doc
           /\ current_run_id = r.run_id
           /\ disk = _save_state(InitDisk, r.doc, "done")
           /\ published = [some |-> TRUE, doc |-> r.doc]
    /\ proc = [DeadProc EXCEPT !.pc = "api"]
    /\ content \in {c \in [Files -> {"v1", NoFile}] :
                       \A f \in Files \ Existing : c[f] = NoFile}
    /\ last = [op |-> "init", file |-> "", args |-> NoArgs, ok |-> FALSE,
               reason |-> "", again |-> FALSE]
    /\ starts = 1
    /\ edits = 0
    /\ calls = 0
    /\ LimQuiet
    /\ ConcQuiet

NextApi ==
    \/ \E f \in Existing : ApiShouldProcess(f)
    \/ \E f \in Existing : ApiStartProcessing(f)
    \/ \E f \in Existing, hs \in BOOLEAN : ApiMarkDetectionComplete(f, hs)
    \/ \E f \in Existing, pr \in PrNumbers, co \in BOOLEAN :
           ApiMarkRefactoringComplete(f, pr, co)
    \/ \E f \in Existing : ApiMarkCompleted(f)
    \/ \E f \in Existing, e \in Failures : ApiMarkFailed(f, e.error, e.phase)
    \/ \E f \in Existing : ApiMarkSkipped(f)
    \/ ApiCompleteRun
    \/ ApiReset
    \/ \E f \in Existing, c \in Contents \cup {NoFile} : EditFile(f, c)

SpecApi == InitApi /\ [][NextApi]_vars

SpecFault == InitFault /\ [][NextApi]_vars

\* ---- threads of one process calling the operations of one StateManager ----

\* a lock that holds no thread back: C30 is tested against it
CanAcquire_always(owner, t) == TRUE

\* threading.Lock in the place of RLock, which holds its owner back too:
\* C31 is tested against it
CanAcquire_plain(owner, t) == owner = NoThread

\* RLock.acquire by thread t returns: the lock is free or t owns it
CanAcquire(owner, t) == owner \in {NoThread, t}

\* the calls the threads make
ThreadCalls ==
    {[op |-> o, file |-> f, args |-> NoArgs] :
        o \in {"should_process", "start_processing", "mark_completed", "mark_skipped"},
        f \in Existing}
    \cup {[op |-> "mark_detection_complete", file |-> f,
           args |-> [NoArgs EXCEPT !.flag = TRUE]] : f \in Existing}
    \cup {[op |-> "mark_refactoring_complete", file |-> f,
           args |-> [NoArgs EXCEPT !.pr = 7]] : f \in Existing}
    \cup {[op |-> "mark_failed", file |-> f,
           args |-> [NoArgs EXCEPT !.error = "analysis failed", !.phase = "detection"]] :
              f \in Existing}
    \cup {[op |-> o, file |-> "", args |-> NoArgs] :
              o \in {"complete_run", "reset", "get_summary"}}

\* the document the body of the operation c leaves of doc
Effect(c, doc) ==
    LET f == c.file
    IN  CASE c.op = "should_process" ->
                should_process(doc, f, content[f], max_retries).doc
          [] c.op = "start_processing" -> start_processing(doc, f, content[f])
          [] c.op = "mark_detection_complete" ->
                mark_detection_complete(doc, f, content[f], c.args.flag)
          [] c.op = "mark_refactoring_complete" ->
                mark_refactoring_complete(doc, f, content[f], c.args.pr, FALSE)
          [] c.op = "mark_completed" -> mark_completed(doc, f, content[f])
          [] c.op = "mark_failed" ->
                mark_failed(doc, f, content[f], max_retries, c.args.error, c.args.phase)
          [] c.op = "mark_skipped" -> mark_skipped(doc, f, content[f])
          [] c.op = "complete_run" -> complete_run(doc)
          [] c.op = "reset" -> reset(doc)
          [] OTHER -> doc

\* the operation c on doc ends with _save_state
Saves(c, doc) ==
    \/ c.op \in {"start_processing", "mark_detection_complete",
                 "mark_refactoring_complete", "mark_completed", "mark_failed",
                 "mark_skipped", "reset"}
    \/ c.op = "complete_run" /\ HasOpenRun(doc)

\* thread t calls an operation and comes to its `with self.lock`
ThreadCall(t, c) ==
    /\ At("api")
    /\ callers[t].pc = "outside"
    /\ calls < MaxCalls
    /\ calls' = calls + 1
    /\ callers' = [callers EXCEPT ![t] =
                      [Outside EXCEPT !.pc = "waiting", !.op = c.op, !.file = c.file,
                                      !.args = c.args]]
    /\ UNCHANGED <<limVars, rlock, state, max_retries, current_run_id, proc, disk, content,
                   last, published, starts, edits>>

\* with self.lock: thread t has the lock
Enter(t) ==
    /\ callers[t].pc = "waiting"
    /\ CanAcquire(rlock, t)
    /\ rlock' = t
    /\ callers' = [callers EXCEPT ![t].pc = "locked", ![t].left = state]
    /\ UNCHANGED <<limVars, smVars>>

\* the body of the operation up to _save_state or to its return
Body(t) ==
    /\ callers[t].pc = "locked"
    /\ LET c == callers[t]
           r == should_process(state, c.file, content[c.file], max_retries)
       IN  /\ state' = Effect(c, state)
           /\ callers' = [callers EXCEPT
                             ![t].pc = IF Saves(c, state) THEN "save" ELSE "unlock",
                             ![t].left = Effect(c, state)]
           /\ last' = IF c.op = "should_process"
                      THEN [Call(c.op, c.file, c.args) EXCEPT !.ok = r.ok,
                                                              !.reason = r.reason]
                      ELSE Call(c.op, c.file, c.args)
    /\ UNCHANGED <<limVars, rlock, max_retries, current_run_id, proc, disk, content,
                   published, starts, edits, calls>>

\* self._save_state(): the nested `with self.lock` of the owner, the write
\* of self.state
SaveStep(t) ==
    /\ callers[t].pc = "save"
    /\ CanAcquire(rlock, t)
    /\ disk' = _save_state(disk, state, ReturnEnd(disk))
    /\ published' = [some |-> TRUE, doc |-> state]
    /\ callers' = [callers EXCEPT ![t].pc = "unlock", ![t].wrote = TRUE]
    /\ UNCHANGED <<limVars, rlock, state, max_retries, current_run_id, proc, content, last,
                   starts, edits, calls>>

\* the end of the with block: the operation returns
Leave(t) ==
    /\ callers[t].pc = "unlock"
    /\ rlock' = NoThread
    /\ callers' = [callers EXCEPT ![t] = Outside]
    /\ UNCHANGED <<limVars, smVars>>

NextConc ==
    \/ \E t \in Threads, c \in ThreadCalls : ThreadCall(t, c)
    \/ \E t \in Threads : Enter(t)
    \/ \E t \in Threads : Body(t)
    \/ \E t \in Threads : SaveStep(t)
    \/ \E t \in Threads : Leave(t)

SpecConc == InitApi /\ [][NextConc]_vars

\* a thread that can take a step of its operation takes it: the interpreter
\* schedules every thread that is not blocked
ThreadStep(t) == Enter(t) \/ Body(t) \/ SaveStep(t) \/ Leave(t)

\* the manager of SpecConc with max_retries = 1 and every work item on disk
InitConcFair ==
    /\ InitApi
    /\ max_retries = 1
    /\ \A f \in Existing : content[f] # NoFile

SpecConcFair ==
    /\ InitConcFair
    /\ [][NextConc]_vars
    /\ \A t \in Threads : WF_vars(ThreadStep(t))

\* no pipeline process and no state file
\* ---- GeminiClient.generate ----

\* max_retries = 3 of generate
MaxCallRetries == 3

\* wait_time = 30 * (attempt + 1)
Backoff == 30

Outcomes == {"ok", "rate_limited", "error"}

\* generate is called: key_idx = self.rate_limiter.wait_if_needed()
Generate(t) ==
    /\ thr[t].pc = "idle"
    /\ acquires < MaxAcquires
    /\ acquires' = acquires + 1
    /\ thr' = [thr EXCEPT ![t] = [Idle EXCEPT !.pc = "lock", !.gen = TRUE]]
    /\ UNCHANGED <<smVars, concVars, rpm_limit, num_keys, request_times, current_key_index, lock, now,
                   grants>>

\* client = self.clients[key_idx]; client.models.generate_content(...) is sent
Send(t) ==
    /\ thr[t].pc = "call"
    /\ thr' = [thr EXCEPT ![t].pc = "sent", ![t].used = Append(@, thr[t].key_idx)]
    /\ UNCHANGED <<smVars, concVars, rpm_limit, num_keys, request_times, current_key_index, lock, now,
                   grants, acquires>>

\* the call returns a text (generate returns it), fails with a rate-limit
\* error (generate sleeps and goes on with the next key while attempts are
\* left, else raises), or fails otherwise (generate raises)
Respond(t, outcome) ==
    /\ thr[t].pc = "sent"
    /\ thr' = IF outcome = "rate_limited" /\ thr[t].attempt < MaxCallRetries - 1
              THEN [thr EXCEPT ![t].pc = "backoff",
                               ![t].wake = now + Backoff * (thr[t].attempt + 1)]
              ELSE [thr EXCEPT ![t] = Idle]
    /\ UNCHANGED <<smVars, concVars, rpm_limit, num_keys, request_times, current_key_index, lock, now,
                   grants, acquires>>

\* time.sleep(wait_time) is over: key_idx = (key_idx + 1) % len(self.clients);
\* continue
NextAttempt(t) ==
    /\ thr[t].pc = "backoff"
    /\ now >= thr[t].wake
    /\ thr' = [thr EXCEPT ![t].pc = "call", ![t].wake = 0,
                          ![t].key_idx = (@ + 1) % num_keys,
                          ![t].attempt = @ + 1]
    /\ UNCHANGED <<smVars, concVars, rpm_limit, num_keys, request_times, current_key_index, lock, now,
                   grants, acquires>>

SmQuiet ==
    /\ max_retries = 1
    /\ state = _create_new_state
    /\ current_run_id = 0
    /\ proc = DeadProc
    /\ disk = InitDisk
    /\ published = [some |-> FALSE, doc |-> _create_new_state]
    /\ content = [f \in Files |-> NoFile]
    /\ last = [op |-> "none", file |-> "", args |-> NoArgs, ok |-> FALSE,
               reason |-> "", again |-> FALSE]
    /\ starts = 0
    /\ edits = 0
    /\ calls = 0

\* RateLimiter(rpm_limit, num_keys) just constructed
InitLim ==
    /\ rpm_limit \in 1..MaxRpm
    /\ num_keys \in 1..MaxKeys
    /\ request_times = [k \in 0..(num_keys - 1) |-> << >>]
    /\ current_key_index = 0
    /\ lock = NoThread
    /\ thr = [t \in Threads |-> Idle]
    /\ now = 0
    /\ grants = << >>
    /\ acquires = 0
    /\ SmQuiet
    /\ ConcQuiet

NextLim ==
    \/ \E t \in Threads : CallWait(t)
    \/ \E t \in Threads : Acquire(t)
    \/ \E t \in Threads : Retry(t)
    \/ \E d \in TickSet : Tick(d)

SpecLim == InitLim /\ [][NextLim]_vars

\* ---- wait_if_needed statement by statement ----

\* a lock that holds no thread back: C32 is tested against it
LockFree_always(owner) == TRUE

\* Lock.acquire returns: no thread holds the lock
LockFree(owner) == owner = NoThread

\* with self.lock: current_time = time.time()
TakeLock(t) ==
    /\ thr[t].pc = "lock"
    /\ LockFree(lock)
    /\ lock' = t
    /\ thr' = [thr EXCEPT ![t].pc = "scan", ![t].current_time = now]
    /\ UNCHANGED <<smVars, concVars, rpm_limit, num_keys, request_times, current_key_index,
                   now, grants, acquires>>

\* the for loop up to the test `len(times) < self.rpm_limit` that succeeds,
\* or to its end: the windows scanned are cleaned; with no key ready the
\* thread computes sleep_time and sleeps, inside the with block
Scan(t) ==
    /\ thr[t].pc = "scan"
    /\ LET r == FindKey(request_times, 0, thr[t].current_time)
           k == r.key_idx
       IN  IF r.granted
           THEN /\ request_times' =
                      [r.rt EXCEPT ![k] = SubSeq(r.rt[k], 1, Len(r.rt[k]) - 1)]
                /\ thr' = [thr EXCEPT ![t].pc = "record", ![t].key_idx = k]
           ELSE /\ request_times' = r.rt
                /\ thr' = [thr EXCEPT
                              ![t].pc = "sleeping",
                              ![t].wake = now + SleepTime(r.rt, thr[t].current_time)]
    /\ UNCHANGED <<smVars, concVars, rpm_limit, num_keys, current_key_index, lock, now,
                   grants, acquires>>

\* times.append(current_time); the cursor moves on; return key_idx, which
\* leaves the with block
Record(t) ==
    /\ thr[t].pc = "record"
    /\ LET k == thr[t].key_idx
       IN  /\ request_times' =
                  [request_times EXCEPT ![k] = Append(@, thr[t].current_time)]
           /\ current_key_index' = NextKeyIndex(k, num_keys)
           /\ grants' = Append(grants, [key |-> k, time |-> thr[t].current_time,
                                        thread |-> t])
           /\ thr' = [thr EXCEPT ![t] = Granted(thr[t], k)]
    /\ lock' = NoThread
    /\ UNCHANGED <<smVars, concVars, rpm_limit, num_keys, now, acquires>>

NextLimSteps ==
    \/ \E t \in Threads : CallWait(t)
    \/ \E t \in Threads : TakeLock(t)
    \/ \E t \in Threads : Scan(t)
    \/ \E t \in Threads : Record(t)
    \/ \E t \in Threads : Retry(t)
    \/ \E d \in TickSet : Tick(d)

SpecLimSteps == InitLim /\ [][NextLimSteps]_vars

NextGen ==
    \/ \E t \in Threads : Generate(t)
    \/ \E t \in Threads : Acquire(t)
    \/ \E t \in Threads : Retry(t)
    \/ \E t \in Threads : Send(t)
    \/ \E t \in Threads, outcome \in Outcomes : Respond(t, outcome)
    \/ \E t \in Threads : NextAttempt(t)
    \/ \E d \in TickSet : Tick(d)

SpecGen == InitLim /\ [][NextGen]_vars

---------------------------------------------------------------------------
(* The properties *)

\* the document a load must yield: the last one published, or the initial one
LastPublished == IF published.some THEN published.doc ELSE _create_new_state

\* C1: wherever the process is killed inside _save_state, a load of the state
\* file yields the last published document, or the initial document if none
\* was ever published
C1_LoadYieldsLastPublished == _load_state(disk) = LastPublished

\* the last call was a phase-completion call repeating the call before it
RepeatedPhaseCall ==
    /\ last.again
    /\ last.op \in {"mark_detection_complete", "mark_refactoring_complete"}

\* C2: a phase-completion call repeated with identical arguments leaves the
\* phase records and the statistics, the api call counters among them, as
\* the first call left them
C2_PhaseCompletionIdempotent ==
    [][(calls' = calls + 1 /\ RepeatedPhaseCall')
         => (state'.files = state.files /\ state'.statistics = state.statistics)]_vars

\* the grants of key k in the 60 seconds from the grant i on
GrantsInWindow(k, i) ==
    {j \in 1..Len(grants) : /\ grants[j].key = k
                            /\ grants[j].time >= grants[i].time
                            /\ grants[j].time - grants[i].time <= Window}

\* C3: the grants of one key within any rolling 60-second window never exceed
\* rpm_limit
C3_WindowCeiling ==
    \A i \in 1..Len(grants) :
        Cardinality(GrantsInWindow(grants[i].key, i)) <= rpm_limit

\* a key was granted again after its window had rolled
C3_Witness ==
    \E i \in 1..Len(grants) :
        /\ Cardinality({j \in 1..Len(grants) : grants[j].key = grants[i].key}) > rpm_limit
        /\ Cardinality(GrantsInWindow(grants[i].key, i)) = rpm_limit

\* thread t is in the retry of wait_if_needed that follows its sleep
Retrying(t) == thr[t].pc = "lock" /\ thr[t].depth > 0

\* C4: a call of wait_if_needed that has waited retries the acquisition and
\* returns: its retry is never blocked
C4_RetryReturns == \A t \in Threads : Retrying(t) => ENABLED Acquire(t)

\* the windows as the scan of Acquire sees them
Evicted(k) == Evict(request_times[k], now)

\* a step of Acquire that grants a key
Granting == Len(grants') = Len(grants) + 1

\* the key granted is the first from the cursor on that is under rpm_limit,
\* and the cursor moves to the key after it
GrantsFirstFromCursor ==
    LET g == grants'[Len(grants')]
    IN  /\ \E a \in 0..(num_keys - 1) :
              /\ g.key = (current_key_index + a) % num_keys
              /\ Len(Evicted(g.key)) < rpm_limit
              /\ \A b \in 0..(a - 1) :
                     Len(Evicted((current_key_index + b) % num_keys)) >= rpm_limit
        /\ current_key_index' = (g.key + 1) % num_keys

\* 2 keys of rpm_limit 2: the grants go to keys 0, 1, 0, 1 and the 5th grant
\* finds an entry of the window 60 seconds old
TwoByTwo ==
    (num_keys = 2 /\ rpm_limit = 2) =>
        /\ \A i \in 1..Len(grants) : i <= 4 => grants[i].key = (i - 1) % 2
        /\ Len(grants) >= 5 =>
               \E j \in 1..4 : grants[5].time - grants[j].time >= Window

\* C5: each acquire grants the first key from the cursor on that is under its
\* ceiling and moves the cursor behind it; 2 keys of ceiling 2 are granted
\* in the order 0, 1, 0, 1, and a 5th time only once an entry is 60 seconds old
C5_Rotation == [][(Granting => GrantsFirstFromCursor) /\ TwoByTwo']_vars

\* 2 keys of rpm_limit 2 and a 5th grant
C5_Witness == num_keys = 2 /\ rpm_limit = 2 /\ Len(grants) = 5

\* k rounds of start_processing followed by mark_failed
RECURSIVE FailedRounds(_)
FailedRounds(k) ==
    IF k = 0 THEN << >>
    ELSE FailedRounds(k - 1) \o <<"start_processing", "mark_failed">>

\* item f has a state in the document and has gone through exactly k rounds
\* of start_processing followed by mark_failed
FailedTimes(f, k) ==
    state.files[f].present /\ state.files[f].history = FailedRounds(k)

\* what should_process answers for f as things stand
Answer(f) == should_process(state, f, content[f], max_retries)

\* should_process after max_retries failures and after max_retries - 1
RetryBoundary(f) ==
    /\ FailedTimes(f, max_retries) =>
           ~Answer(f).ok /\ Answer(f).reason = "max_retries_exceeded"
    /\ FailedTimes(f, max_retries - 1) => Answer(f).ok

CompletedAnswer(f) ==
    LET fs == state.files[f]
        r == Answer(f)
    IN  fs.status = "completed" =>
            IF _get_file_hash(content[f]) = fs.file_hash
            THEN ~r.ok /\ r.reason = "already_completed" /\ r.doc = state
            ELSE /\ r.ok /\ r.reason = "file_changed"
                 /\ r.doc.files[f].status = "pending"
                 /\ r.doc.files[f].file_hash = _get_file_hash(content[f])

NewAnswer(f) ==
    ~state.files[f].present => Answer(f).ok /\ Answer(f).reason = "ready"

RetryScenario(m) ==
    FailedRounds(m - 1) \o <<"start_processing", "mark_completed">>

\* f is the only item any operation was applied to
OnlyItem(f) == \A g \in Files \ {f} : state.files[g].history = << >>

\* C9: an item whose attempts 1..max_retries-1 end in mark_failed and whose
\* attempt max_retries ends in mark_completed is completed with attempts =
\* max_retries, statistics.completed = 1 and statistics.failed = 0
C9_BoundedRetry ==
    \A f \in Files :
        (state.files[f].history = RetryScenario(max_retries) /\ OnlyItem(f)) =>
            /\ state.files[f].status = "completed"
            /\ state.files[f].attempts = max_retries
            /\ state.statistics.completed = 1
            /\ state.statistics.failed = 0

\* with max_retries = 2, an item has failed once and then completed
C9_Witness ==
    /\ max_retries = 2
    /\ last.op = "mark_completed"
    /\ state.files[last.file].history = RetryScenario(2)
    /\ OnlyItem(last.file)

\* the step is a call of mark_failed
MarkFailedCall == calls' = calls + 1 /\ last'.op = "mark_failed"

\* C10: mark_failed records last_error and failed_phase; with attempts >=
\* max_retries it sets the status to failed and adds one to
\* statistics.failed, otherwise it sets the status to pending and leaves
\* statistics.failed as it is
C10_MarkFailed ==
    [][MarkFailedCall =>
         LET f == last'.file
             fs == state'.files[f]
         IN  /\ fs.last_error = last'.args.error
             /\ fs.failed_phase = last'.args.phase
             /\ IF state.files[f].attempts >= max_retries
                THEN /\ fs.status = "failed"
                     /\ state'.statistics.failed = state.statistics.failed + 1
                ELSE /\ fs.status = "pending"
                     /\ state'.statistics.failed = state.statistics.failed]_vars

\* mark_failed has just given an item up at max_retries = 2 attempts
C10_Witness ==
    /\ last.op = "mark_failed"
    /\ max_retries = 2
    /\ state.files[last.file].attempts = 2
    /\ state.files[last.file].status = "failed"
    /\ state.statistics.failed = 1
    /\ state.files[last.file].last_error = last.args.error


\* the documents there are: the one in memory and the ones in the state
\* file and its backup
Documents ==
    {state} \cup {disk[w].doc : w \in {w \in {"primary", "backup"} : disk[w].kind = "doc"}}

\* every required phase of the item state fs is recorded as completed
PhasesCompleted(fs) == fs.detection.completed /\ fs.refactoring.completed

\* C11: in every document, an item whose status is completed has its
\* detection record and its refactoring record with completed = true
C11_CompletedHasPhases ==
    \A doc \in Documents : \A f \in Files :
        doc.files[f].status = "completed" => PhasesCompleted(doc.files[f])

\* mark_completed has just completed an item, and the state file holds it
C11_Witness ==
    /\ last.op = "mark_completed"
    /\ state.files[last.file].status = "completed"
    /\ disk.primary.kind = "doc"
    /\ disk.primary.doc.files[last.file].status = "completed"
    /\ PhasesCompleted(disk.primary.doc.files[last.file])

\* C12: after each operation of the controller has returned, the document in
\* the state file is the document in memory
C12_WriteThrough == At("api") => disk.primary = Written(state)

\* an item is in flight: between its start_processing and the operation that
\* ends its attempt
InFlight == proc.pc \in {"detect", "skip", "refactor", "pr", "complete", "fail"}

\* the item state of f in the state file of dsk, its history variable left
\* aside
PersistedItem(dsk, f) == [dsk.primary.doc.files[f] EXCEPT !.history = << >>]

\* the step is the shutdown of a process that had an item in flight
ShutdownInFlight == InFlight /\ proc'.pc = "dead" /\ proc'.mode = "run"

\* C13: the shutdown on an interrupt that arrives while an item is in flight
\* leaves the persisted state of that item as it was last persisted before
\* the interrupt
C13_ShutdownKeepsItem ==
    [][ShutdownInFlight =>
         PersistedItem(disk', proc.filepath) = PersistedItem(disk, proc.filepath)]_vars

\* C14: once the pipeline process has terminated in an orderly way, the
\* document holds no open run
C14_ExitClosesRun == proc.mode # "" /\ ~alive => ~HasOpenRun(_load_state(disk))

\* the run records of doc that lack completed_at
OpenRuns(doc) == {i \in 1..Len(doc.runs) : ~doc.runs[i].completed}

\* at most one run record of doc is open, and it is the last one
OneOpenRunAtEnd(doc) == OpenRuns(doc) \subseteq {Len(doc.runs)}

\* the step constructs the StateManager of a new process
Constructed == ~alive /\ alive'

\* the document the constructor finds
Found == _load_state(disk)

\* C15: in every document at most one run record lacks completed_at, and it
\* is the last of the list; a process start that finds such an open run
\* resumes it and appends no run record
C15_OneOpenRun ==
    [][/\ \A doc \in Documents' : OneOpenRunAtEnd(doc)
       /\ (Constructed /\ OpenRuns(Found) # {}) =>
              /\ state'.runs = Found.runs
              /\ current_run_id' = Found.runs[Len(Found.runs)].run_id]_vars

\* a second process has resumed the run the first one left open
C15_Witness ==
    /\ alive
    /\ starts = 2
    /\ last.op = "init"
    /\ Len(state.runs) = 1
    /\ OpenRuns(state) = {1}
    /\ current_run_id = 1

\* the run_ids of doc increase strictly along the runs list
IncreasingRunIds(doc) ==
    \A i, j \in 1..Len(doc.runs) : i < j => doc.runs[i].run_id < doc.runs[j].run_id

\* what the constructor makes of the runs list it finds
RunOpened ==
    LET runs == Found.runs
        n == Len(runs)
        next_id == IF n = 0 THEN 1 ELSE runs[n].run_id + 1
    IN  IF n = 0 \/ runs[n].completed
        THEN /\ Len(state'.runs) = n + 1
             /\ SubSeq(state'.runs, 1, n) = runs
             /\ state'.runs[n + 1].run_id = next_id
             /\ ~state'.runs[n + 1].completed
             /\ current_run_id' = next_id
        ELSE current_run_id' = runs[n].run_id

\* C16: the constructor appends, after a closed last run or to an empty list,
\* a run record whose run_id is the previous run_id + 1 (1 for the first),
\* and takes it as current run id; it takes the run_id of an open last run
\* as current run id; so the run_ids of every document increase strictly
C16_RunIds ==
    [][/\ Constructed => RunOpened
       /\ \A doc \in Documents' : IncreasingRunIds(doc)]_vars

\* a second process has opened run 2 after the closed run 1
C16_Witness ==
    /\ alive
    /\ starts = 2
    /\ last.op = "init"
    /\ Len(state.runs) = 2
    /\ state.runs[1].run_id = 1 /\ state.runs[1].completed
    /\ state.runs[2].run_id = 2
    /\ current_run_id = 2

\* the step is a call of complete_run that repeats the call before it
CompleteRunAgain == calls' = calls + 1 /\ last'.op = "complete_run" /\ last'.again

\* C17: a second call of complete_run, the open run being closed, leaves the
\* document unchanged and writes nothing
C17_CompleteRunIdempotent ==
    [][CompleteRunAgain => (state' = state /\ disk' = disk)]_vars

\* complete_run was called a second time on the run it had closed
C17_Witness ==
    /\ last.op = "complete_run"
    /\ last.again
    /\ Len(state.runs) = 1
    /\ state.runs[1].completed
    /\ disk.primary = Written(state)

\* ---- C18 ----
\* the constructor's load, as a step: the process was not there and a
\* construction was attempted
LoadStep == starts' = starts + 1

\* C18: whatever the state file and its backup are (absent, not parsing,
\* not readable, a document), load does not abort; an absent state file
\* gives a fresh document, and one that exists and gives no document gives
\* the backup's document when the backup parses and a fresh one otherwise
C18_LoadFallback ==
    [][LoadStep =>
          /\ proc'.exc # "load_error"
          /\ disk.primary.kind = "absent" => _load_state(disk) = _create_new_state
          /\ disk.primary.kind \in {"partial", "unreadable"} =>
                 _load_state(disk) = IF disk.backup.kind = "doc"
                                     THEN disk.backup.doc
                                     ELSE _create_new_state]_vars

\* ---- C19 ----
\* C19: a constructor never takes from the state file or its backup a
\* document that has not all of the top-level keys: what load returns is
\* complete
C19_LegacyReplaced ==
    [][LoadStep /\ ~LoadRaises(disk) => _load_state(disk).lacks = {}]_vars

\* ---- C20 ----
\* the operations that end with _save_state whatever the document is
SavingOps == {"start_processing", "mark_detection_complete",
              "mark_refactoring_complete", "mark_completed", "mark_failed",
              "mark_skipped"}

\* the last operation has returned and the write of its document failed
PersistFailed ==
    /\ At("api")
    /\ last.op \in SavingOps
    /\ ~disk.writable
    /\ disk.primary # Written(state)

\* C20: an operation whose write of the document failed has not returned
\* normally: its caller has the error
C20_SaveReports == PersistFailed => proc.exc = "IOError"

\* ---- C21 ----
\* C21: where the temporary file can be written, an operation that saves
\* leaves its document as the state file, whether or not the previous state
\* file could be moved to the backup path
C21_BackupBestEffort ==
    At("api") /\ last.op \in SavingOps /\ disk.writable
        => disk.primary = Written(state)

\* ---- C22 ----
\* create_pr has raised in this attempt: a transformation was made, the
\* phase record was written and holds no PR
PrFailed ==
    /\ At("complete")
    /\ proc.gemini_refactoring
    /\ state.files[proc.filepath].refactoring.pr_number = 0

\* C22: an attempt in which create_pr raised does not record the item as
\* completed
C22_SubmissionFailure ==
    [][PrFailed => LET f == proc.filepath
                   IN  state'.files[f].status # "completed"]_vars

\* ---- C23 ----
\* C23: each call a generate has sent used a key that wait_if_needed
\* returned to that generate for that call: the i-th call sent has the key
\* of the i-th grant
C23_GrantBeforeCall ==
    \A t \in Threads :
        /\ Len(thr[t].used) <= Len(thr[t].got)
        /\ \A i \in 1..Len(thr[t].used) : thr[t].used[i] = thr[t].got[i]

\* ---- C24 ----
\* C24: over any sequence of runs no item has more attempts than max_retries
C24_AttemptsBounded ==
    \A f \in Files : state.files[f].attempts <= max_retries

\* ---- C25 ----
\* the number of items of the document whose status is s
StatusCount(doc, s) == Cardinality({f \in Files : doc.files[f].status = s})

\* C25: the counters of the document are the numbers of items in the
\* status they count
C25_CountersRecomputable ==
    /\ state.statistics.completed = StatusCount(state, "completed")
    /\ state.statistics.failed = StatusCount(state, "failed")
    /\ state.statistics.skipped = StatusCount(state, "skipped")

\* ---- C26 ----
\* the content of the item in process has the fingerprint stored for it
Unchanged ==
    ~HashChanged(_get_file_hash(content[proc.filepath]), state.files[proc.filepath])

\* C26: with the content unchanged, an attempt that finds detection recorded
\* complete does not run the analysis (so the analysis cannot fail in it),
\* and one that finds refactoring recorded complete does not run the
\* transformation
C26_NoRerun ==
    [][/\ (At("detect") /\ state.files[proc.filepath].detection.completed /\ Unchanged)
            => proc'.exc # "analysis failed"
       /\ (At("refactor") /\ state.files[proc.filepath].refactoring.completed /\ Unchanged)
            => proc'.exc # "refactoring failed" /\ ~proc'.gemini_refactoring]_vars

\* ---- C27 ----
\* C27: when should_process has found a completed item changed, the item
\* holds no completed phase: detection and refactoring are to be run on the
\* new content
C27_HistoryDiscarded ==
    (alive /\ last.op = "should_process" /\ last.reason = "file_changed") =>
        /\ ~state.files[last.file].detection.completed
        /\ ~state.files[last.file].refactoring.completed

\* ---- C28 ----
\* the item f of doc has failed for good
TerminalFailure(doc, f) ==
    doc.files[f].status = "failed" /\ doc.files[f].attempts >= max_retries

\* a step of a running process that is no reset
InProcess == alive /\ alive'

\* should_process(f) is called in this step of the filter loop
Filtered(f) == At("filter") /\ Head(proc.files_to_scan) = f /\ proc' # proc

\* a run ends in order by this step, and is no reset
OrderlyExit == alive /\ ~alive' /\ proc'.mode \in {"run", "stats"}

StartsRecorded(fs) ==
    Cardinality({i \in 1..Len(fs.history) : fs.history[i] = "start_processing"})

\* the operation of this step is op on the item f
Called(op, f) == calls' = calls + 1 /\ last'.op = op /\ last'.file = f

\* C29: start_processing adds exactly one to the attempts of its item, reset
\* clears them, and no other step changes the attempts of an item; they are
\* never less than the number of start_processing calls recorded
C29_AttemptsMonotonic ==
    [][\A f \in Files :
          /\ state'.files[f].attempts =
                IF Called("start_processing", f) THEN state.files[f].attempts + 1
                ELSE IF Called("reset", "") THEN 0
                ELSE state.files[f].attempts
          /\ state'.files[f].attempts >= StartsRecorded(state'.files[f])]_vars

\* an item started twice and then marked by another operation keeps its two
\* attempts
C29_Witness ==
    /\ last.op \in {"mark_failed", "mark_skipped", "mark_completed"}
    /\ state.files[last.file].attempts = 2
    /\ StartsRecorded(state.files[last.file]) = 2

\* ---- C30 ----
\* thread t is in the with block of an operation
Inside(t) == callers[t].pc \in {"locked", "save", "unlock"}

\* C30: a thread in the with block of an operation owns the lock and no
\* other thread is in one; the document is as the thread found it until its
\* body runs and as its body left it from then on, and what _save_state has
\* written for it is the document its body left
C30_CriticalSection ==
    \A t \in Threads :
        Inside(t) =>
            /\ rlock = t
            /\ \A u \in Threads \ {t} : ~Inside(u)
            /\ state = callers[t].left
            /\ callers[t].wrote => disk.primary = Written(callers[t].left)

\* a thread is saving its start_processing while the other waits for the
\* lock with a start_processing of the same item
C30_Witness ==
    /\ callers[1].pc = "save"
    /\ callers[1].op = "start_processing"
    /\ callers[2].pc = "waiting"
    /\ callers[2].op = "start_processing"
    /\ callers[2].file = callers[1].file

\* ---- C31 ----
\* C31: a thread that holds the lock of the StateManager and comes to the
\* persist of its operation is not held back by its own lock, and every
\* operation that has the lock completes: the thread leaves the with block
C31_Reentrant ==
    \A t \in Threads :
        /\ [](callers[t].pc = "save" => CanAcquire(rlock, t))
        /\ (Inside(t) ~> ~Inside(t))

\* a thread has written the document in the persist of its operation while
\* holding the lock
C31_Witness ==
    \E t \in Threads : rlock = t /\ callers[t].pc = "unlock" /\ callers[t].wrote

\* ---- C32 ----
\* thread t is in the with block of wait_if_needed
HoldsLock(t) ==
    \/ thr[t].pc \in {"scan", "record", "sleeping"}
    \/ thr[t].pc = "lock" /\ thr[t].depth > 0

\* C32: the threads are in the with block of wait_if_needed one at a time;
\* no key holds more grant times than rpm_limit, the slot a thread has found
\* free is still free when it records its grant, and the grants of a key
\* within 60 seconds are rpm_limit at most
C32_MutualExclusion ==
    /\ \A t \in Threads :
          HoldsLock(t) => /\ lock = t
                          /\ \A u \in Threads \ {t} : ~HoldsLock(u)
    /\ \A k \in DOMAIN request_times : Len(request_times[k]) <= rpm_limit
    /\ \A t \in Threads :
          thr[t].pc = "record" => Len(request_times[thr[t].key_idx]) < rpm_limit
    /\ \A i \in 1..Len(grants) :
          Cardinality(GrantsInWindow(grants[i].key, i)) <= rpm_limit

\* a thread is about to record the grant of the last free slot of the only
\* key while the other thread waits for the lock
C32_Witness ==
    /\ num_keys = 1
    /\ thr[1].pc = "record"
    /\ Len(request_times[0]) = rpm_limit - 1
    /\ thr[2].pc = "lock"
    /\ thr[2].depth = 0

\* ---- C33 ----
\* C33: reset() leaves the fresh empty document, whatever the document was:
\* has_previous_run() is false, there are no items and no run records, and
\* every statistics counter is zero
C33_ResetFresh ==
    [][Called("reset", "") =>
          /\ state' = _create_new_state
          /\ ~has_previous_run(state')
          /\ \A f \in Files : ~state'.files[f].present
          /\ state'.runs = << >>
          /\ \A c \in DOMAIN state'.statistics : state'.statistics[c] = 0]_vars

\* reset() has run on a document that held an item, a run record and a
\* counted outcome: the document it replaced is the backup
C33_Witness ==
    /\ last.op = "reset"
    /\ state = _create_new_state
    /\ disk.backup.kind = "doc"
    /\ has_previous_run(disk.backup.doc)
    /\ disk.backup.doc.runs # << >>
    /\ disk.backup.doc.statistics.completed > 0

\* ---- C34 ----
\* the place of f in the order of discovery
Place(f) == CHOOSE i \in 1..Len(DiscoveryOrder) : DiscoveryOrder[i] = f

\* C34: the except clause of process_file_with_state records the failure
\* with mark_failed and returns to the processing loop, with no exception
\* left and the remaining items as they were, unless the process is killed
\* inside the save; and the loop takes the remaining items in the order of
\* discovery
C34_FailureContained ==
    [][/\ (At("fail") /\ last'.op = "mark_failed") =>
             \/ proc' = DeadProc
             \/ /\ proc'.pc = "loop"
                /\ proc'.exc = ""
                /\ proc'.remaining_files = proc.remaining_files
                /\ last'.file = proc.filepath
                /\ LET h == state'.files[proc.filepath].history
                   IN  h # << >> /\ h[Len(h)] = "mark_failed"
       /\ (At("loop") /\ proc'.pc = "detect") =>
             /\ proc'.filepath = Head(proc.remaining_files)
             /\ \A i \in 1..Len(proc'.remaining_files) :
                   Place(proc'.remaining_files[i]) > Place(proc'.filepath)]_vars

\* the first item of a batch of two has failed and the same run has started
\* the attempt of the second
C34_Witness ==
    /\ starts = 1
    /\ proc.pc = "detect"
    /\ proc.filepath = "B.java"
    /\ last.op = "start_processing"
    /\ LET h == state.files["A.java"].history
       IN  h # << >> /\ h[Len(h)] = "mark_failed"

\* ---- C35 ----
\* C35: mark_skipped sets the status of its item to skipped and adds one to
\* statistics.skipped; the attempts, the phase records, the fingerprint and
\* the error fields of the item, every other item, the other counters and
\* the run records are as before
C35_SkipFrame ==
    [][\A f \in Files :
          Called("mark_skipped", f) =>
             LET was == _get_file_state(state, f, content[f]).files[f]
                 is == state'.files[f]
             IN  /\ is.status = "skipped"
                 /\ state'.statistics.skipped = state.statistics.skipped + 1
                 /\ is.attempts = was.attempts
                 /\ is.detection = was.detection
                 /\ is.refactoring = was.refactoring
                 /\ is.file_hash = was.file_hash
                 /\ is.last_error = was.last_error
                 /\ is.failed_phase = was.failed_phase
                 /\ \A g \in Files \ {f} : state'.files[g] = state.files[g]
                 /\ \A c \in DOMAIN state.statistics \ {"skipped"} :
                       state'.statistics[c] = state.statistics[c]
                 /\ state'.runs = state.runs]_vars

\* mark_skipped has run on an item with an attempt and a detection record
C35_Witness ==
    /\ last.op = "mark_skipped"
    /\ last.file \in Files
    /\ state.files[last.file].status = "skipped"
    /\ state.files[last.file].attempts = 1
    /\ state.files[last.file].detection.completed
    /\ state.statistics.skipped = 1

\* ---- C36 ----
\* C36: the published document holds whole operations only: the attempts of
\* an item are the start_processing calls recorded for it, and an item with
\* the status completed has been counted in statistics.completed
C36_WholeOperations ==
    published.some =>
       \A f \in Files :
          LET fs == published.doc.files[f]
          IN  fs.present =>
                 /\ fs.attempts = StartsRecorded(fs)
                 /\ fs.status = "completed" => published.doc.statistics.completed > 0

\* ---- C37 ----
\* C37: when mark_completed has run on an item whose file exists, the
\* fingerprint stored for the item is that of the content, and a
\* should_process on the unchanged content answers already_completed
C37_FingerprintOfCompleted ==
    [][(At("complete") /\ last'.op = "mark_completed" /\ alive'
           /\ content[proc.filepath] # NoFile) =>
          /\ state'.files[proc.filepath].file_hash = _get_file_hash(content[proc.filepath])
          /\ should_process(state', proc.filepath, content[proc.filepath],
                            max_retries).reason = "already_completed"]_vars

\* ---- C38 ----
\* C38: the failed_phase handed to mark_failed names the phase whose
\* collaborator raised: detection when detector.analyze_file raised,
\* refactoring_gemini when refactorer.refactor raised
C38_PhaseNamesRaiser ==
    last.op = "mark_failed" =>
       /\ last.args.error = "analysis failed" => last.args.phase = "detection"
       /\ last.args.error = "refactoring failed" => last.args.phase = "refactoring_gemini"

\* ---- C39 ----
\* the sum of a counter over the run records
RECURSIVE SumRuns(_, _)
SumRuns(runs, counter) ==
    IF runs = << >> THEN 0
    ELSE runs[1][counter] + SumRuns(Tail(runs), counter)

\* C39: statistics.completed, statistics.total_files_processed and the sum
\* of files_processed over the run records are equal, and
\* statistics.prs_created is the sum of prs_created over the run records
C39_CountersAgree ==
    /\ state.statistics.completed = state.statistics.total_files_processed
    /\ state.statistics.completed = SumRuns(state.runs, "files_processed")
    /\ state.statistics.prs_created = SumRuns(state.runs, "prs_created")

\* ---- C40 ----
\* C40: the summary view counts every item once: total_discovered is the sum
\* of completed, failed, skipped and pending
C40_SummaryAccounts ==
    LET s == get_summary(state, max_retries)
    IN  s.total_discovered = s.completed + s.failed + s.skipped + s.pending
=============================================================================
